---- MODULE Spec2Model ----
(***************************************************************************)
(* Model of the icdApp extension: the build-session state machine driven   *)
(* by IcdAppExtension.executeBuildPipeline / ProjectManager                *)
(* .createFullstackProject through BackendBuilder and FrontendBuilder, and *)
(* the response parsing functions (parseAIResponse, cleanGeneratedCode,    *)
(* removeMarkdownCodeBlocks, extractMarkdownSections, ...).                *)
(*                                                                         *)
(* A text is a sequence of characters.  A character is a one-element      *)
(* string; the characters that TLA+ cannot write literally have names:    *)
(* "LF" line feed, "CR" carriage return, "TAB", "SP" space, "BSL"         *)
(* backslash, "BTK" backtick, "DQ" double quote, "SQ" single quote.       *)
(***************************************************************************)
EXTENDS Integers, Sequences, FiniteSets, TLC

LF == "LF"
CR == "CR"
TAB == "TAB"
SP == "SP"
BSL == "BSL"
BTK == "BTK"
DQ == "DQ"
SQ == "SQ"

\* The characters String.prototype.trim removes (those the model's texts use).
Whitespace == {SP, LF, CR, TAB}

Fence == <<BTK, BTK, BTK>>

(***************************************************************************)
(* String primitives of JavaScript, on texts.                              *)
(***************************************************************************)
Min(S) == CHOOSE x \in S : \A y \in S : x <= y

\* s.startsWith(pat, i - 1): pat occurs in s at the 1-based position i.
StartsWithAt(s, pat, i) ==
    /\ i >= 1
    /\ i + Len(pat) - 1 <= Len(s)
    /\ SubSeq(s, i, i + Len(pat) - 1) = pat

StartsWith(s, pat) == StartsWithAt(s, pat, 1)

EndsWith(s, pat) == StartsWithAt(s, pat, Len(s) - Len(pat) + 1)

\* s.indexOf(pat, i - 1) + 1: the least position >= i where pat occurs, else 0.
IndexOfFrom(s, pat, i) ==
    LET cand == {j \in i..(Len(s) - Len(pat) + 1) : StartsWithAt(s, pat, j)}
    IN  IF cand = {} THEN 0 ELSE Min(cand)

Includes(s, pat) == IndexOfFrom(s, pat, 1) # 0

\* s.slice(i - 1): the text from position i on.
From(s, i) == SubSeq(s, i, Len(s))

\* s.replace(/pat/g, rep) for a literal pattern: left to right, non-overlapping,
\* the replacement text is not scanned again.
RECURSIVE ReplaceAll(_, _, _)
ReplaceAll(s, pat, rep) ==
    LET j == IndexOfFrom(s, pat, 1)
    IN  IF j = 0 THEN s
        ELSE SubSeq(s, 1, j - 1) \o rep \o ReplaceAll(From(s, j + Len(pat)), pat, rep)

\* s.trim()
RECURSIVE TrimStart(_)
TrimStart(s) ==
    IF s # <<>> /\ Head(s) \in Whitespace THEN TrimStart(Tail(s)) ELSE s

RECURSIVE TrimEnd(_)
TrimEnd(s) ==
    IF s # <<>> /\ s[Len(s)] \in Whitespace THEN TrimEnd(SubSeq(s, 1, Len(s) - 1)) ELSE s

Trim(s) == TrimEnd(TrimStart(s))

\* s.replace(/```$/, ''): a fence at the very end of the text is removed.
StripTrailingFence(s) ==
    IF EndsWith(s, Fence) THEN SubSeq(s, 1, Len(s) - 3) ELSE s

(***************************************************************************)
(* Fence tags.                                                             *)
(***************************************************************************)
TagMotoko == <<"m", "o", "t", "o", "k", "o">>
TagRust == <<"r", "u", "s", "t">>
TagMo == <<"m", "o">>
TagRs == <<"r", "s">>
TagCandid == <<"c", "a", "n", "d", "i", "d">>
TagToml == <<"t", "o", "m", "l">>
TagJsx == <<"j", "s", "x">>
TagTsx == <<"t", "s", "x">>
TagJavascript == <<"j", "a", "v", "a", "s", "c", "r", "i", "p", "t">>
TagTypescript == <<"t", "y", "p", "e", "s", "c", "r", "i", "p", "t">>
TagReact == <<"r", "e", "a", "c", "t">>
TagNextjs == <<"n", "e", "x", "t", "j", "s">>
TagCss == <<"c", "s", "s">>
TagScss == <<"s", "c", "s", "s">>
TagJson == <<"j", "s", "o", "n">>

\* The alternations of the four regular expressions, in their written order.
BackendCleanTags == <<TagMotoko, TagRust, TagMo, TagRs>>
FrontendCleanTags == <<TagJsx, TagTsx, TagJavascript, TagTypescript, TagReact, TagNextjs>>
BackendSectionTags == <<TagMotoko, TagRust, TagCandid, TagToml>>
FrontendSectionTags == <<TagJsx, TagTsx, TagJavascript, TagTypescript, TagCss, TagScss, TagJson>>

\* The first alternative of (?:t1|t2|...) that matches at position i, or <<>>.
FirstTagAt(s, tags, i) ==
    LET hit == {k \in 1..Len(tags) : StartsWithAt(s, tags[k], i)}
    IN  IF hit = {} THEN <<>> ELSE tags[Min(hit)]

\* /```(?:tags)?\n?/ anchored at position p: the position after the opener, or 0
\* when no fence starts at p.  Tag and line feed are optional and greedy.  The
\* engine would retry with a shorter opener only after failing to find a closing
\* fence, and a shorter opener adds only tag or line-feed characters to the
\* text searched, where no fence can start: the greedy choice decides.
OptOpenerEnd(s, tags, p) ==
    IF ~StartsWithAt(s, Fence, p) THEN 0
    ELSE LET a == p + 3 + Len(FirstTagAt(s, tags, p + 3))
         IN  IF StartsWithAt(s, <<LF>>, a) THEN a + 1 ELSE a

\* /```(?:tags)\n/ anchored at position p: tag and line feed are mandatory.
ReqOpenerEnd(s, tags, p) ==
    IF ~StartsWithAt(s, Fence, p) THEN 0
    ELSE LET t == FirstTagAt(s, tags, p + 3)
         IN  IF t # <<>> /\ StartsWithAt(s, <<LF>>, p + 3 + Len(t))
             THEN p + 3 + Len(t) + 1 ELSE 0

\* code.match(/```(?:tags)?\n?([\s\S]*?)```/g)[0]: the leftmost match, as
\* <<first position, last position>>, or <<0, 0>> when nothing matches.
FirstOptBlock(s, tags) ==
    LET ok == {p \in 1..Len(s) :
                  /\ OptOpenerEnd(s, tags, p) # 0
                  /\ IndexOfFrom(s, Fence, OptOpenerEnd(s, tags, p)) # 0}
    IN  IF ok = {} THEN <<0, 0>>
        ELSE LET p == Min(ok)
             IN  <<p, IndexOfFrom(s, Fence, OptOpenerEnd(s, tags, p)) + 2>>

\* match.replace(/```(?:tags)?\n?/, ''): the first opener in the text is removed.
RemoveFirstOptOpener(s, tags) ==
    LET p == IndexOfFrom(s, Fence, 1)
    IN  IF p = 0 THEN s
        ELSE SubSeq(s, 1, p - 1) \o From(s, OptOpenerEnd(s, tags, p))

\* removeMarkdownCodeBlocks of BackendBuilder and of FrontendBuilder, which
\* differ in the tag list only.
RemoveMarkdownCodeBlocksDropsNothing(code, tags) == code

removeMarkdownCodeBlocks(code, tags) ==
    LET m == FirstOptBlock(code, tags)
    IN  IF m[1] # 0
        THEN StripTrailingFence(RemoveFirstOptOpener(SubSeq(code, m[1], m[2]), tags))
        ELSE code

(***************************************************************************)
(* cleanGeneratedCode                                                      *)
(***************************************************************************)
\* The chain of five replace calls, applied when the text includes backslash-n.
\* The text as received, no escape sequence decoded.
KeepEscapes(s) == s

Unescape(s) ==
    IF Includes(s, <<BSL, "n">>)
    THEN ReplaceAll(
           ReplaceAll(
             ReplaceAll(
               ReplaceAll(
                 ReplaceAll(s, <<BSL, "n">>, <<LF>>),
                 <<BSL, "t">>, <<TAB>>),
               <<BSL, "r">>, <<CR>>),
             <<BSL, DQ>>, <<DQ>>),
           <<BSL, BSL>>, <<BSL>>)
    ELSE s

\* .replace(/\r\n/g, '\n').replace(/\r/g, '\n')
NormalizeLineEndings(s) == ReplaceAll(ReplaceAll(s, <<CR, LF>>, <<LF>>), <<CR>>, <<LF>>)

\* One layer of wrapping quotes is removed: s.slice(1, -1).
StripQuotes(s) ==
    IF \/ StartsWith(s, <<DQ>>) /\ EndsWith(s, <<DQ>>)
       \/ StartsWith(s, <<SQ>>) /\ EndsWith(s, <<SQ>>)
    THEN SubSeq(s, 2, Len(s) - 1)
    ELSE s

EnsureTrailingNewline(s) == IF EndsWith(s, <<LF>>) THEN s ELSE s \o <<LF>>

CleanWithoutTrim(rawCode, tags) ==
    EnsureTrailingNewline(
      removeMarkdownCodeBlocks(StripQuotes(NormalizeLineEndings(Unescape(rawCode))), tags))

CleanWithoutNewline(rawCode, tags) ==
    Trim(removeMarkdownCodeBlocks(StripQuotes(NormalizeLineEndings(Unescape(rawCode))), tags))

cleanGeneratedCode(rawCode, tags) ==
    EnsureTrailingNewline(
      Trim(removeMarkdownCodeBlocks(StripQuotes(NormalizeLineEndings(Unescape(rawCode))), tags)))

(***************************************************************************)
(* File names and the file sets built from a response.                     *)
(***************************************************************************)
MainMo == <<"m", "a", "i", "n", ".", "m", "o">>
LibRs == <<"l", "i", "b", ".", "r", "s">>
BackendDid == <<"b", "a", "c", "k", "e", "n", "d", ".", "d", "i", "d">>
CargoToml == <<"C", "a", "r", "g", "o", ".", "t", "o", "m", "l">>
MainKey == <<"m", "a", "i", "n">>
AppTsx == <<"A", "p", "p", ".", "t", "s", "x">>
AppJsx == <<"A", "p", "p", ".", "j", "s", "x">>
PageTsx == <<"p", "a", "g", "e", ".", "t", "s", "x">>
IndexScss == <<"i", "n", "d", "e", "x", ".", "s", "c", "s", "s">>
GlobalsCss == <<"g", "l", "o", "b", "a", "l", "s", ".", "c", "s", "s">>
PackageJson == <<"p", "a", "c", "k", "a", "g", "e", ".", "j", "s", "o", "n">>

File(filename, content) == [filename |-> filename, content |-> content]

\* Map.prototype.set on a map kept as the sequence of its entries in insertion
\* order: an existing key keeps its place and takes the new value.
MapSet(m, k, v) ==
    IF \E i \in 1..Len(m) : m[i].filename = k
    THEN [i \in 1..Len(m) |-> IF m[i].filename = k THEN File(k, v) ELSE m[i]]
    ELSE Append(m, File(k, v))

\* content.match(/```(?:tags)\n([\s\S]*?)```/g): the matches from position i on,
\* left to right, each search resuming after the previous match.
RECURSIVE SectionBlocks(_, _, _)
SectionBlocks(s, tags, i) ==
    IF i > Len(s) THEN <<>>
    ELSE LET q == ReqOpenerEnd(s, tags, i)
             c == IF q = 0 THEN 0 ELSE IndexOfFrom(s, Fence, q)
         IN  IF c # 0
             THEN <<SubSeq(s, i, c + 2)>> \o SectionBlocks(s, tags, c + 3)
             ELSE SectionBlocks(s, tags, i + 1)

\* block.replace(/```(?:tags)\n?/, '').replace(/```$/, '').trim()
BlockCode(block, tags) ==
    LET hit == {p \in 1..Len(block) :
                   StartsWithAt(block, Fence, p) /\ FirstTagAt(block, tags, p + 3) # <<>>}
        p == Min(hit)
        a == p + 3 + Len(FirstTagAt(block, tags, p + 3))
        e == IF StartsWithAt(block, <<LF>>, a) THEN a + 1 ELSE a
        opened == IF hit = {} THEN block ELSE SubSeq(block, 1, p - 1) \o From(block, e)
    IN  Trim(StripTrailingFence(opened))

BlockHas(block, tag) == Includes(block, Fence \o tag)

\* The body of BackendBuilder.extractMarkdownSections's loop for one block.
BackendSetBlock(files, block) ==
    IF BlockHas(block, TagMotoko) THEN MapSet(files, MainMo, BlockCode(block, <<TagMotoko>>))
    ELSE IF BlockHas(block, TagRust) THEN MapSet(files, LibRs, BlockCode(block, <<TagRust>>))
    ELSE IF BlockHas(block, TagCandid)
         THEN MapSet(files, BackendDid, BlockCode(block, <<TagCandid>>))
    ELSE IF BlockHas(block, TagToml)
         THEN MapSet(files, CargoToml, BlockCode(block, <<TagToml>>))
    ELSE files

\* The body of FrontendBuilder.extractMarkdownSections's loop for one block.
FrontendSetBlock(files, block) ==
    IF BlockHas(block, TagJsx) \/ BlockHas(block, TagTsx)
    THEN MapSet(files,
                IF BlockHas(block, TagTsx) THEN AppTsx ELSE AppJsx,
                BlockCode(block, <<TagJsx, TagTsx>>))
    ELSE IF BlockHas(block, TagCss) \/ BlockHas(block, TagScss)
         THEN MapSet(files,
                     IF BlockHas(block, TagScss) THEN IndexScss ELSE GlobalsCss,
                     BlockCode(block, <<TagCss, TagScss>>))
    ELSE IF BlockHas(block, TagJson)
         THEN MapSet(files, PackageJson, BlockCode(block, <<TagJson>>))
    ELSE files

RECURSIVE BackendSetBlocks(_, _)
BackendSetBlocks(files, blocks) ==
    IF blocks = <<>> THEN files
    ELSE BackendSetBlocks(BackendSetBlock(files, Head(blocks)), Tail(blocks))

RECURSIVE FrontendSetBlocks(_, _)
FrontendSetBlocks(files, blocks) ==
    IF blocks = <<>> THEN files
    ELSE FrontendSetBlocks(FrontendSetBlock(files, Head(blocks)), Tail(blocks))

\* The sentinel entry with the text trimmed instead of verbatim.
ExtractTrimmedMain(content) == <<File(MainKey, Trim(content))>>

\* BackendBuilder.extractMarkdownSections
extractMarkdownSections(content) ==
    LET files == BackendSetBlocks(<<>>, SectionBlocks(content, BackendSectionTags, 1))
    IN  IF Len(files) = 0 THEN <<File(MainKey, content)>> ELSE files

\* FrontendBuilder.extractMarkdownSections
extractFrontendMarkdownSections(content) ==
    LET files == FrontendSetBlocks(<<>>, SectionBlocks(content, FrontendSectionTags, 1))
    IN  IF Len(files) = 0 THEN <<File(MainKey, content)>> ELSE files

\* BackendBuilder.isMainFile
isMainFile(filename, backend) ==
    IF backend = "motoko"
    THEN EndsWith(filename, <<".", "m", "o">>)
         /\ (filename = MainMo \/ Includes(filename, <<"m", "a", "i", "n">>))
    ELSE EndsWith(filename, <<".", "r", "s">>)
         /\ (filename = LibRs \/ Includes(filename, <<"l", "i", "b">>))

\* FrontendBuilder.isMainAppFile
isMainAppFile(filename, frontend) ==
    IF frontend = "nextjs"
    THEN \/ Includes(filename, <<"p", "a", "g", "e", ".">>)
         \/ Includes(filename, <<"A", "p", "p", ".">>)
         \/ EndsWith(filename, <<".", "t", "s", "x">>)
         \/ EndsWith(filename, <<".", "j", "s", "x">>)
    ELSE \/ Includes(filename, <<"A", "p", "p", ".">>)
         \/ Includes(filename, <<"a", "p", "p", ".">>)
         \/ EndsWith(filename, <<".", "j", "s", "x">>)
         \/ EndsWith(filename, <<".", "t", "s", "x">>)

\* FrontendBuilder.isStylesFile
isStylesFile(filename) ==
    \/ EndsWith(filename, <<".", "c", "s", "s">>)
    \/ EndsWith(filename, <<".", "s", "c", "s", "s">>)
    \/ EndsWith(filename, <<".", "s", "a", "s", "s">>)
    \/ Includes(filename, <<"s", "t", "y", "l", "e">>)

\* A file set: GeneratedFiles and GeneratedFrontendFiles have the same shape
\* (mainFile/appFile, candidFile/stylesFile, additionalFiles).  An optional
\* member is a sequence of no or one file; additionalFiles is never assigned
\* an empty list, so <<>> stands for its absence.
FileSet(main, side, additional) ==
    [mainFile |-> main, sideFile |-> side, additionalFiles |-> additional]

\* The loop of extractFilesFromResponse over the extracted map.
RECURSIVE BackendClassify(_, _, _)
BackendClassify(files, entries, backend) ==
    IF entries = <<>> THEN files
    ELSE LET e == Head(entries)
             next == IF isMainFile(e.filename, backend)
                     THEN [files EXCEPT !.mainFile = e]
                     ELSE IF EndsWith(e.filename, <<".", "d", "i", "d">>)
                          THEN [files EXCEPT !.sideFile = <<e>>]
                          ELSE [files EXCEPT !.additionalFiles = Append(@, e)]
         IN  BackendClassify(next, Tail(entries), backend)

\* The loop of extractFrontendFilesFromResponse over the extracted map.
RECURSIVE FrontendClassify(_, _, _)
FrontendClassify(files, entries, frontend) ==
    IF entries = <<>> THEN files
    ELSE LET e == Head(entries)
             next == IF isMainAppFile(e.filename, frontend)
                     THEN [files EXCEPT !.mainFile = e]
                     ELSE IF isStylesFile(e.filename)
                          THEN [files EXCEPT !.sideFile = <<e>>]
                          ELSE [files EXCEPT !.additionalFiles = Append(@, e)]
         IN  FrontendClassify(next, Tail(entries), frontend)

BackendMainName(backend) == IF backend = "motoko" THEN MainMo ELSE LibRs

FrontendMainName(frontend) == IF frontend = "nextjs" THEN PageTsx ELSE AppJsx

\* The classification step of extractFilesFromResponse, given the cleaned text
\* and the extracted map.
BackendFilesOf(cleanContent, extractedFiles, backend) ==
    LET files == FileSet(File(BackendMainName(backend), <<>>), <<>>, <<>>)
    IN  IF Len(extractedFiles) > 1
        THEN BackendClassify(files, extractedFiles, backend)
        ELSE [files EXCEPT !.mainFile.content = cleanContent]

FrontendFilesOf(cleanContent, extractedFiles, frontend) ==
    LET files == FileSet(File(FrontendMainName(frontend), <<>>), <<>>, <<>>)
    IN  IF Len(extractedFiles) > 1
        THEN FrontendClassify(files, extractedFiles, frontend)
        ELSE [files EXCEPT !.mainFile.content = cleanContent]

\* BackendBuilder.extractFilesFromResponse
extractFilesFromResponse(content, backend) ==
    LET cleanContent == cleanGeneratedCode(content, BackendCleanTags)
    IN  BackendFilesOf(cleanContent, extractMarkdownSections(cleanContent), backend)

\* FrontendBuilder.extractFrontendFilesFromResponse
extractFrontendFilesFromResponse(content, frontend) ==
    LET cleanContent == cleanGeneratedCode(content, FrontendCleanTags)
    IN  FrontendFilesOf(cleanContent, extractFrontendMarkdownSections(cleanContent), frontend)

(***************************************************************************)
(* Response values and their normalization.                                *)
(*                                                                         *)
(* A response is [kind, str, fields]: kind is the JavaScript shape of      *)
(* response.data ("object", "array", "string", "number", "null"), str the  *)
(* text of a string, fields the members of an object.  A member is         *)
(* [t, s]: t = "absent", "string" (with text s) or "other" (any value that *)
(* is not a string).                                                       *)
(***************************************************************************)
FieldNames == {"generatedCode", "code", "message", "data", "content", "result"}

Absent == [t |-> "absent", s |-> <<>>]
Str(s) == [t |-> "string", s |-> s]
Other == [t |-> "other", s |-> <<>>]

NoFields == [f \in FieldNames |-> Absent]

ObjectResponse(fields) == [kind |-> "object", str |-> <<>>, fields |-> fields]
StringResponse(s) == [kind |-> "string", str |-> s, fields |-> NoFields]
ShapeResponse(kind) == [kind |-> kind, str |-> <<>>, fields |-> NoFields]

\* v && typeof v === 'string'
IsNonEmptyString(v) == v.t = "string" /\ v.s # <<>>

\* The for loop over alternativeKeys: the first key holding a non-empty string.
FirstStringField(fields, keys) ==
    LET hit == {k \in 1..Len(keys) : IsNonEmptyString(fields[keys[k]])}
    IN  IF hit = {} THEN <<>> ELSE <<fields[keys[Min(hit)]].s>>

\* The fallback fields probed in another order.
AlternativeKeysMessageFirst == <<"message", "code", "data", "content", "result">>

BackendAlternativeKeys == <<"code", "message", "data", "content", "result">>
FrontendAlternativeKeys == <<"content", "data", "result", "message">>

\* responseData && typeof responseData === 'object': objects and arrays.
IsObjectLike(resp) == resp.kind \in {"object", "array"}

\* Only objects are searched; a response that is itself a string gives nothing.
RawCodeOfObjectsOnly(resp) ==
    IF IsObjectLike(resp) THEN FirstStringField(resp.fields, <<"generatedCode">>) ELSE <<>>

\* The first half of parseAIResponse: the raw code as a sequence of no or one
\* text; <<>> is the null of `if (!generatedCode) return null`.
BackendRawCode(resp) ==
    LET found == IF IsObjectLike(resp)
                 THEN IF IsNonEmptyString(resp.fields["generatedCode"])
                      THEN <<resp.fields["generatedCode"].s>>
                      ELSE FirstStringField(resp.fields, BackendAlternativeKeys)
                 ELSE IF resp.kind = "string" THEN <<resp.str>> ELSE <<>>
    IN  IF found # <<>> /\ found[1] # <<>> THEN found ELSE <<>>

\* The first half of parseAIFrontendResponse.
FrontendRawCode(resp) ==
    LET found == IF IsObjectLike(resp)
                 THEN IF IsNonEmptyString(resp.fields["code"])
                      THEN <<resp.fields["code"].s>>
                      ELSE IF IsNonEmptyString(resp.fields["generatedCode"])
                           THEN <<resp.fields["generatedCode"].s>>
                           ELSE FirstStringField(resp.fields, FrontendAlternativeKeys)
                 ELSE IF resp.kind = "string" THEN <<resp.str>> ELSE <<>>
    IN  IF found # <<>> /\ found[1] # <<>> THEN found ELSE <<>>

\* BackendBuilder.parseAIResponse: no or one file set.
parseAIResponse(resp, backend) ==
    LET raw == BackendRawCode(resp)
    IN  IF raw = <<>> THEN <<>> ELSE <<extractFilesFromResponse(raw[1], backend)>>

\* FrontendBuilder.parseAIFrontendResponse
parseAIFrontendResponse(resp, frontend) ==
    LET raw == FrontendRawCode(resp)
    IN  IF raw = <<>> THEN <<>> ELSE <<extractFrontendFilesFromResponse(raw[1], frontend)>>

(***************************************************************************)
(* Input texts.  A text is the concatenation of pieces drawn from a small  *)
(* set; the bounds are the numbers of pieces.                              *)
(***************************************************************************)
MaxPieces == 3
MaxInner == 3
MaxEscaped == 3

RECURSIVE Concats(_, _)
Concats(pieces, n) ==
    IF n = 0 THEN {<<>>}
    ELSE LET shorter == Concats(pieces, n - 1)
         IN  shorter \cup {t \o p : t \in shorter, p \in pieces}

RustOpen == Fence \o TagRust \o <<LF>>
MotokoOpen == Fence \o TagMotoko \o <<LF>>
CandidOpen == Fence \o TagCandid \o <<LF>>
JsxOpen == Fence \o TagJsx \o <<LF>>
CssOpen == Fence \o TagCss \o <<LF>>

FnX == <<"f", "n", SP, "x", "(", ")", "{", "}">>
Service == <<"s", "e", "r", "v", "i", "c", "e">>
Hello == <<"/", "/", SP, "h", "e", "l", "l", "o">>
EscN == <<BSL, "n">>

\* Texts of any kind: fences, an opener, both line ends, backslash, quotes.
FreePieces(side) ==
    {Fence, <<LF>>, <<CR>>, <<BSL>>, <<"n">>, <<BSL, "r">>, <<DQ>>, <<SQ>>, <<SP>>, <<"x">>}
        \cup {IF side = "backend" THEN RustOpen ELSE JsxOpen}

FreeTexts(side) == Concats(FreePieces(side), MaxPieces)

\* One rust-tagged fenced block around an inner text.
InnerPieces == {FnX, <<SP>>, <<LF>>, <<CR>>, <<BSL>>, <<"n">>, <<BTK>>, <<DQ>>}

SingleBlockTexts == {RustOpen \o inner \o Fence : inner \in Concats(InnerPieces, MaxInner)}

\* A source block and a candid block, in either order, with text around them.
BlockInners == {FnX \o <<LF>>, <<SP>> \o Service \o <<LF>>}

TwoBlockTexts ==
    {pre \o first[1] \o first[2] \o Fence \o sep \o second[1] \o second[2] \o Fence \o post :
        pre \in {<<>>, Hello \o <<LF>>},
        first \in {RustOpen, MotokoOpen, CandidOpen} \X BlockInners,
        sep \in {<<LF>>, <<LF>> \o Hello \o <<LF>>},
        second \in {RustOpen, MotokoOpen, CandidOpen} \X BlockInners,
        post \in {<<>>, <<LF>>}}

\* Double-escaped texts: line breaks written backslash-n, and other backslashes.
EscapedPieces == {EscN, Hello, <<SP>>, <<DQ>>, <<BSL>>, <<"t">>}

EscapedTexts == {t \in Concats(EscapedPieces, MaxEscaped) : Includes(t, EscN)}

FrontendBlockTexts ==
    {pre \o JsxOpen \o FnX \o <<LF>> \o Fence \o sep \o CssOpen \o Service \o Fence :
        pre \in {<<>>, Hello \o <<LF>>}, sep \in {<<>>, <<LF>>}}

GeneratedCodeObject(t) == ObjectResponse([NoFields EXCEPT !["generatedCode"] = Str(t)])
CodeObject(t) == ObjectResponse([NoFields EXCEPT !["code"] = Str(t)])

BackendResponses ==
    {GeneratedCodeObject(t) : t \in SingleBlockTexts \cup TwoBlockTexts}
        \cup {CodeObject(t) : t \in EscapedTexts}
        \cup {ObjectResponse(NoFields), ShapeResponse("null"), StringResponse(<<>>)}

FrontendResponses ==
    {CodeObject(t) : t \in FrontendBlockTexts}
        \cup {GeneratedCodeObject(t) : t \in FrontendBlockTexts}
        \cup {ObjectResponse(NoFields), ShapeResponse("null")}

ParseInputs ==
    ({"backend"} \X {"motoko", "rust"} \X BackendResponses)
        \cup ({"frontend"} \X {"react", "nextjs"} \X FrontendResponses)

CleanTags(side) == IF side = "backend" THEN BackendCleanTags ELSE FrontendCleanTags

(***************************************************************************)
(* The build: sessions, configurations, the file system.                   *)
(***************************************************************************)
SessionIds == {"s1", "s2"}

Config(projectName, backend, frontend) ==
    [projectName |-> projectName, backend |-> backend, frontend |-> frontend]

\* The configurations getUserConfiguration can return that the model uses.
Configs ==
    {Config("app1", "rust", "react"),
     Config("app1", "motoko", "nextjs"),
     Config("app2", "rust", "nextjs")}

\* A directory <workspace>/<root>/<dir> and a file in it.
Dir(root, dir) == [root |-> root, dir |-> dir]
Path(root, dir, name) == [root |-> root, dir |-> dir, name |-> name]
DirOf(path) == Dir(path.root, path.dir)
Write(path, content) == [path |-> path, content |-> content]

RootDir == "."
BackendSrc == "src/<proj>_backend"
FrontendDir == "src/<proj>_frontend"
FrontendSrc == "src/<proj>_frontend/src"
FrontendApp == "src/<proj>_frontend/src/app"
FrontendUtils == "src/<proj>_frontend/src/utils"

\* What `dfx new` leaves on disk when it succeeds.
ScaffoldDirs(root) == {Dir(root, RootDir), Dir(root, BackendSrc), Dir(root, FrontendDir)}

IcpAgentTs == <<"i", "c", "p", "A", "g", "e", "n", "t", ".", "t", "s">>
TsconfigJson == <<"t", "s", "c", "o", "n", "f", "i", "g", ".", "j", "s", "o", "n">>
NextConfigJs == <<"n", "e", "x", "t", ".", "c", "o", "n", "f", "i", "g", ".", "j", "s">>
ViteConfigTs == <<"v", "i", "t", "e", ".", "c", "o", "n", "f", "i", "g", ".", "t", "s">>
BackupSuffix == <<".", "b", "a", "c", "k", "u", "p">>
\* Text the extension generates itself (templates, merged package.json).
Template == <<"T">>

WritesOf(dir, root, fileSeq) ==
    [i \in 1..Len(fileSeq) |-> Write(Path(root, dir, fileSeq[i].filename), fileSeq[i].content)]

\* The same writes with the main file last.
ReplaceBackendWritesMainLast(root, files) ==
    WritesOf(BackendSrc, root, files.sideFile \o files.additionalFiles \o <<files.mainFile>>)

\* BackendBuilder.replaceBackendCode: the writes it attempts, in order.
ReplaceBackendWrites(root, files) ==
    WritesOf(BackendSrc, root, <<files.mainFile>> \o files.sideFile \o files.additionalFiles)

\* FrontendBuilder.getFrontendFilePaths
FrontendAppPath(root, frontend) ==
    IF frontend = "nextjs" THEN Path(root, FrontendApp, PageTsx)
    ELSE Path(root, FrontendSrc, AppJsx)

FrontendStylesPath(root, frontend) ==
    IF frontend = "nextjs" THEN Path(root, FrontendApp, GlobalsCss)
    ELSE Path(root, FrontendSrc, IndexScss)

\* FrontendBuilder.replaceFrontendCode: the writes it attempts, in order.
ReplaceFrontendWrites(root, files, frontend) ==
    <<Write(FrontendAppPath(root, frontend), files.mainFile.content)>>
        \o (IF files.sideFile = <<>> THEN <<>>
            ELSE <<Write(FrontendStylesPath(root, frontend), files.sideFile[1].content)>>)
        \o WritesOf(FrontendSrc, root, files.additionalFiles)

\* FrontendBuilder.updatePackageJson: package.json is created or rewritten.
PackageJsonWrite(root) == Write(Path(root, FrontendDir, PackageJson), Template)

\* ProjectManager.replaceFrontendFiles with createFrontendUtilities: the writes
\* it attempts, in order, given the files on disk.  The backup's name carries a
\* timestamp, which the model leaves out.
ManagerFrontendWrites(root, files, frontend, onDisk) ==
    LET main == Path(root, FrontendSrc, files.mainFile.filename)
        configName == IF frontend = "nextjs" THEN NextConfigJs ELSE ViteConfigTs
        IfAbsent(path) == IF path \in DOMAIN onDisk THEN <<>> ELSE <<Write(path, Template)>>
    IN  (IF main \in DOMAIN onDisk
         THEN <<Write(Path(root, FrontendSrc, files.mainFile.filename \o BackupSuffix),
                      onDisk[main])>>
         ELSE <<>>)
        \o WritesOf(FrontendSrc, root, <<files.mainFile>> \o files.sideFile \o files.additionalFiles)
        \o <<Write(Path(root, FrontendUtils, IcpAgentTs), Template)>>
        \o (IF Path(root, FrontendDir, PackageJson) \in DOMAIN onDisk
            THEN <<PackageJsonWrite(root)>> ELSE <<>>)
        \o IfAbsent(Path(root, FrontendDir, TsconfigJson))
        \o IfAbsent(Path(root, FrontendDir, configName))

\* The responses the generation endpoints give in the build.
RustBlockText == RustOpen \o FnX \o <<LF>> \o Fence
TwoBlockText == RustOpen \o FnX \o <<LF>> \o Fence \o <<LF>> \o CandidOpen \o Service \o <<LF>> \o Fence
JsxCssText == JsxOpen \o FnX \o <<LF>> \o Fence \o <<LF>> \o CssOpen \o Service \o Fence

BuildBackendResponses ==
    {GeneratedCodeObject(RustBlockText), GeneratedCodeObject(TwoBlockText),
     ObjectResponse(NoFields)}

BuildFrontendResponses == {CodeObject(JsxCssText), ShapeResponse("null")}

\* The request did not return a response: network fault, timeout, HTTP error.
RequestFailed == ShapeResponse("failed")

\* session.error values
FailedToCreateProject == "Failed to create project"
FailedToGenerateBackend == "Failed to generate backend code"
FailedToReplaceBackend == "Failed to replace backend code"
FailedToGenerateFrontend == "Failed to generate frontend code"
FailedToReplaceFrontend == "Failed to replace frontend code"
PromptFailed == "showInformationMessage failed"

(***************************************************************************)
(* State.                                                                  *)
(*                                                                         *)
(* activeSessions: the registry, session id -> BuildSession.  An optional  *)
(* member of a session (error, projectPath, backendCode, frontendCode) is  *)
(* a sequence of no or one value.                                          *)
(* pc, driver: where each build stands and which caller runs it            *)
(* ("pipeline": executeBuildPipeline, "manager": createFullstackProject).  *)
(* cancelled: token.isCancellationRequested; aborted: the signal the       *)
(* request in flight was issued with; generatedFiles: the local of         *)
(* createFullBackend / createFullFrontend / enhanceFrontend.               *)
(* dirs, disk: the directories and files under the workspace.              *)
(* errorWrites, commandRuns, requestsSent, written: history of each        *)
(* session: assignments to session.error, runs of `dfx new`, requests      *)
(* posted per endpoint, files written in order.                            *)
(*                                                                         *)
(* pSide .. pFiles: one run of parseAIResponse / parseAIFrontendResponse   *)
(* as the sequence of its intermediate values (generatedCode,              *)
(* cleanContent, extractedFiles, files), pWritten what replaceBackendCode  *)
(* / replaceFrontendCode then wrote.                                       *)
(***************************************************************************)
VARIABLES activeSessions, pc, driver, cancelled, aborted, generatedFiles, dirs, disk,
          errorWrites, commandRuns, requestsSent, written,
          pSide, pStack, pResp, pStage, pRaw, pClean, pSections, pFiles, pWritten

buildVars == <<activeSessions, pc, driver, cancelled, aborted, generatedFiles, dirs, disk,
               errorWrites, commandRuns, requestsSent, written>>

parseVars == <<pSide, pStack, pResp, pStage, pRaw, pClean, pSections, pFiles, pWritten>>

vars == <<buildVars, parseVars>>

NoFiles == FileSet(File(<<>>, <<>>), <<>>, <<>>)

(***************************************************************************)
(* The build.                                                              *)
(***************************************************************************)
\* No build is running: the state after the extension's construction.
BuildIdle ==
    /\ activeSessions = <<>>
    /\ pc = [s \in SessionIds |-> "idle"]
    /\ driver = [s \in SessionIds |-> "pipeline"]
    /\ cancelled = [s \in SessionIds |-> FALSE]
    /\ aborted = [s \in SessionIds |-> FALSE]
    /\ generatedFiles = [s \in SessionIds |-> <<>>]
    /\ disk = <<>>
    /\ errorWrites = [s \in SessionIds |-> 0]
    /\ commandRuns = [s \in SessionIds |-> 0]
    /\ requestsSent = [s \in SessionIds |-> [backend |-> 0, frontend |-> 0]]
    /\ written = [s \in SessionIds |-> <<>>]

ParseOff ==
    /\ pSide = "backend"
    /\ pStack = "rust"
    /\ pResp = ShapeResponse("null")
    /\ pStage = "off"
    /\ pRaw = <<>>
    /\ pClean = <<>>
    /\ pSections = <<>>
    /\ pFiles = NoFiles
    /\ pWritten = <<>>

\* The workspace may already hold a directory named like a project.
Init ==
    /\ BuildIdle
    /\ dirs \in {{}, {Dir("app1", RootDir)}}
    /\ ParseOff

Session(s) == activeSessions[s]
Root(s) == Session(s).config.projectName

SetStatusDropped(sessions, s, status) == sessions

SetStatusOfAll(sessions, s, status) ==
    [t \in DOMAIN sessions |-> [sessions[t] EXCEPT !.status = status]]

SetStatus(sessions, s, status) == [sessions EXCEPT ![s].status = status]
SetError(sessions, s, message) == [sessions EXCEPT ![s].error = <<message>>]

FailBackendByThrowing(s, message) ==
    /\ activeSessions' = SetError(SetStatus(activeSessions, s, "error"), s, message)
    /\ errorWrites' = [errorWrites EXCEPT ![s] = @ + 1]
    /\ pc' = [pc EXCEPT ![s] = "thrown"]

FailBackendAndRetry(s, message) ==
    /\ activeSessions' = SetError(SetStatus(activeSessions, s, "error"), s, message)
    /\ errorWrites' = [errorWrites EXCEPT ![s] = @ + 1]
    /\ pc' = [pc EXCEPT ![s] = "start"]

\* status = 'error'; error = message, as createFullBackend does on every failure.
FailBackend(s, message) ==
    /\ activeSessions' = SetError(SetStatus(activeSessions, s, "error"), s, message)
    /\ errorWrites' = [errorWrites EXCEPT ![s] = @ + 1]
    /\ pc' = [pc EXCEPT ![s] = "backendFailed"]

\* The first k of the writes reach the disk (writeFileSync after mkdirSync).
DiskAfter(d, writes, k) ==
    [p \in DOMAIN d \cup {writes[i].path : i \in 1..k} |->
        IF \E i \in 1..k : writes[i].path = p
        THEN writes[CHOOSE i \in 1..k :
                      writes[i].path = p /\ \A j \in (i + 1)..k : writes[j].path # p].content
        ELSE d[p]]

DoWrites(s, writes, k) ==
    /\ disk' = DiskAfter(disk, writes, k)
    /\ dirs' = dirs \cup {DirOf(writes[i].path) : i \in 1..k}
    /\ written' = [written EXCEPT ![s] = @ \o SubSeq(writes, 1, k)]

\* buildDApp: createBuildSession, then the build is started by one of the callers.
BuildDApp(s, config, by) ==
    /\ pc[s] = "idle"
    /\ activeSessions' =
         [t \in DOMAIN activeSessions \cup {s} |->
            IF t = s
            THEN [config |-> config, status |-> "pending", error |-> <<>>,
                  projectPath |-> <<>>, backendCode |-> <<>>, frontendCode |-> <<>>]
            ELSE activeSessions[t]]
    /\ pc' = [pc EXCEPT ![s] = "start"]
    /\ driver' = [driver EXCEPT ![s] = by]
    /\ UNCHANGED <<cancelled, aborted, generatedFiles, dirs, disk, errorWrites, commandRuns,
                   requestsSent, written, parseVars>>

\* The user cancels the progress notification of a running build.
Cancel(s) ==
    /\ pc[s] \in {"start", "dfx", "backendRequest", "backendWrite", "backendDone",
                  "frontendRequest", "frontendWrite", "frontendDone"}
    /\ ~cancelled[s]
    /\ cancelled' = [cancelled EXCEPT ![s] = TRUE]
    /\ UNCHANGED <<activeSessions, pc, driver, aborted, generatedFiles, dirs, disk, errorWrites,
                   commandRuns, requestsSent, written, parseVars>>

\* createFullBackend up to the first await: status = 'creating-project' (set by
\* createFullstackProject too), createDfxProject's existsSync check, and either
\* its `return null` or the start of `dfx new`.
BackendStart(s) ==
    /\ pc[s] = "start"
    /\ IF Dir(Root(s), RootDir) \in dirs
       THEN /\ FailBackend(s, FailedToCreateProject)
            /\ UNCHANGED commandRuns
       ELSE /\ activeSessions' = SetStatus(activeSessions, s, "creating-project")
            /\ commandRuns' = [commandRuns EXCEPT ![s] = @ + 1]
            /\ pc' = [pc EXCEPT ![s] = "dfx"]
            /\ UNCHANGED errorWrites
    /\ UNCHANGED <<driver, cancelled, aborted, generatedFiles, dirs, disk, requestsSent,
                   written, parseVars>>

\* `signal: token.isCancellationRequested ? AbortSignal.timeout(0) : undefined`:
\* the signal handed to axios.post fires at once exactly when cancellation was
\* already requested.
AbortSignalFor(isCancellationRequested) == isCancellationRequested

PostOutcomesIgnoringSignal(signalFires, responses) == responses \cup {RequestFailed}

\* What `await axios.post(...)` can yield: a response body, or a rejection
\* (RequestFailed); with a signal that fires at once, only the rejection.
PostOutcomes(signalFires, responses) ==
    IF signalFires THEN {RequestFailed} ELSE responses \cup {RequestFailed}

CreateDfxProjectUnchecked(outcome, root, onDisk) == <<root>>

\* createDfxProject after `dfx new`: the project path if execAsync resolved and
\* both existsSync checks pass on the directories now on disk, else null (<<>>).
createDfxProject(outcome, root, onDisk) ==
    IF /\ outcome # "failed"
       /\ Dir(root, RootDir) \in onDisk
       /\ Dir(root, BackendSrc) \in onDisk
    THEN <<root>>
    ELSE <<>>

\* `dfx new` returns.  outcome: "created" (the scaffold is on disk), "partial"
\* (the project directory without its backend source directory), "nothing"
\* (exit code 0, nothing created), "failed" (execAsync rejects).  On success
\* createFullBackend records the path, sets 'building-backend' and
\* buildBackendCode posts its request.
DfxReturn(s, outcome) ==
    /\ pc[s] = "dfx"
    /\ dirs' = CASE outcome = "created" -> dirs \cup ScaffoldDirs(Root(s))
                 [] outcome = "partial" -> dirs \cup {Dir(Root(s), RootDir)}
                 [] OTHER -> dirs
    /\ IF createDfxProject(outcome, Root(s), dirs') # <<>>
       THEN /\ activeSessions' =
                 SetStatus([activeSessions EXCEPT ![s].projectPath = <<Root(s)>>],
                           s, "building-backend")
            /\ aborted' = [aborted EXCEPT ![s] = AbortSignalFor(cancelled[s])]
            /\ requestsSent' = [requestsSent EXCEPT ![s].backend = @ + 1]
            /\ pc' = [pc EXCEPT ![s] = "backendRequest"]
            /\ UNCHANGED errorWrites
       ELSE /\ FailBackend(s, FailedToCreateProject)
            /\ UNCHANGED <<aborted, requestsSent>>
    /\ UNCHANGED <<driver, cancelled, generatedFiles, disk, commandRuns, written, parseVars>>

\* The backend request settles.  A request issued with an already-fired abort
\* signal can only fail.  buildBackendCode parses the response and stores the
\* main file's content in the session.
BackendResponse(s, resp) ==
    /\ pc[s] = "backendRequest"
    /\ resp \in PostOutcomes(aborted[s], BuildBackendResponses)
    /\ LET files == IF resp = RequestFailed THEN <<>>
                    ELSE parseAIResponse(resp, Session(s).config.backend)
       IN  IF files = <<>>
           THEN /\ FailBackend(s, FailedToGenerateBackend)
                /\ UNCHANGED generatedFiles
           ELSE /\ activeSessions' =
                     [activeSessions EXCEPT ![s].backendCode = <<files[1].mainFile.content>>]
                /\ generatedFiles' = [generatedFiles EXCEPT ![s] = files]
                /\ pc' = [pc EXCEPT ![s] = "backendWrite"]
                /\ UNCHANGED errorWrites
    /\ UNCHANGED <<driver, cancelled, aborted, dirs, disk, commandRuns, requestsSent,
                   written, parseVars>>

\* replaceBackendCode: the first k writes succeed; the next one, if any, throws.
\* After the last write updateDfxConfig only reads, and createFullBackend sets
\* 'completed' and returns true.
BackendWrite(s, k) ==
    /\ pc[s] = "backendWrite"
    /\ LET writes == ReplaceBackendWrites(Root(s), generatedFiles[s][1])
       IN  /\ k \in 0..Len(writes)
           /\ DoWrites(s, writes, k)
           /\ IF k < Len(writes)
              THEN FailBackend(s, FailedToReplaceBackend)
              ELSE /\ activeSessions' = SetStatus(activeSessions, s, "completed")
                   /\ pc' = [pc EXCEPT ![s] = "backendDone"]
                   /\ UNCHANGED errorWrites
    /\ UNCHANGED <<driver, cancelled, aborted, generatedFiles, commandRuns, requestsSent,
                   parseVars>>

\* createFullBackend returned false.  executeBuildPipeline throws
\* Error(session.error || ...) and its catch block assigns status and error;
\* createFullstackProject returns false.
BackendFailed(s) ==
    /\ pc[s] = "backendFailed"
    /\ IF driver[s] = "pipeline"
       THEN /\ activeSessions' =
                 SetError(SetStatus(activeSessions, s, "error"), s,
                          IF Session(s).error # <<>> THEN Session(s).error[1]
                          ELSE "Backend creation failed")
            /\ errorWrites' = [errorWrites EXCEPT ![s] = @ + 1]
            /\ pc' = [pc EXCEPT ![s] = "thrown"]
       ELSE /\ pc' = [pc EXCEPT ![s] = "returned"]
            /\ UNCHANGED <<activeSessions, errorWrites>>
    /\ UNCHANGED <<driver, cancelled, aborted, generatedFiles, dirs, disk, commandRuns,
                   requestsSent, written, parseVars>>

\* createFullBackend returned true.  Both callers set 'building-frontend';
\* createFullFrontend sets it again; buildFrontendCode posts its request.
FrontendStart(s) ==
    /\ pc[s] = "backendDone"
    /\ activeSessions' = SetStatus(activeSessions, s, "building-frontend")
    /\ aborted' = [aborted EXCEPT ![s] = AbortSignalFor(cancelled[s])]
    /\ requestsSent' = [requestsSent EXCEPT ![s].frontend = @ + 1]
    /\ generatedFiles' = [generatedFiles EXCEPT ![s] = <<>>]
    /\ pc' = [pc EXCEPT ![s] = "frontendRequest"]
    /\ UNCHANGED <<driver, cancelled, dirs, disk, errorWrites, commandRuns, written, parseVars>>

\* The frontend request settles.  On failure createFullFrontend assigns
\* session.error and returns false; enhanceFrontend returns false, after which
\* createFullstackProject sets 'completed' and returns true.
FrontendResponse(s, resp) ==
    /\ pc[s] = "frontendRequest"
    /\ resp \in PostOutcomes(aborted[s], BuildFrontendResponses)
    /\ LET files == IF resp = RequestFailed THEN <<>>
                    ELSE parseAIFrontendResponse(resp, Session(s).config.frontend)
       IN  IF files # <<>>
           THEN /\ generatedFiles' = [generatedFiles EXCEPT ![s] = files]
                /\ pc' = [pc EXCEPT ![s] = "frontendWrite"]
                /\ UNCHANGED <<activeSessions, errorWrites>>
           ELSE /\ UNCHANGED generatedFiles
                /\ IF driver[s] = "pipeline"
                   THEN /\ activeSessions' = SetError(activeSessions, s, FailedToGenerateFrontend)
                        /\ errorWrites' = [errorWrites EXCEPT ![s] = @ + 1]
                        /\ pc' = [pc EXCEPT ![s] = "frontendDone"]
                   ELSE /\ activeSessions' = SetStatus(activeSessions, s, "completed")
                        /\ pc' = [pc EXCEPT ![s] = "returned"]
                        /\ UNCHANGED errorWrites
    /\ UNCHANGED <<driver, cancelled, aborted, dirs, disk, commandRuns, requestsSent,
                   written, parseVars>>

\* createFullFrontend: replaceFrontendCode, where the first k writes succeed and
\* the next one, if any, throws; then updatePackageJson, whose failure is only
\* logged.
PipelineFrontendWrite(s, k, packageJsonWritten) ==
    /\ pc[s] = "frontendWrite"
    /\ driver[s] = "pipeline"
    /\ LET writes == ReplaceFrontendWrites(Root(s), generatedFiles[s][1],
                                           Session(s).config.frontend)
           all == IF packageJsonWritten THEN Append(writes, PackageJsonWrite(Root(s)))
                  ELSE writes
       IN  /\ k \in 0..Len(writes)
           /\ IF k < Len(writes)
              THEN /\ ~packageJsonWritten
                   /\ DoWrites(s, writes, k)
                   /\ activeSessions' = SetError(activeSessions, s, FailedToReplaceFrontend)
                   /\ errorWrites' = [errorWrites EXCEPT ![s] = @ + 1]
              ELSE /\ DoWrites(s, all, Len(all))
                   /\ UNCHANGED <<activeSessions, errorWrites>>
    /\ pc' = [pc EXCEPT ![s] = "frontendDone"]
    /\ UNCHANGED <<driver, cancelled, aborted, generatedFiles, commandRuns, requestsSent,
                   parseVars>>

\* enhanceFrontend: replaceFrontendFiles, where the first k writes succeed and the
\* next one, if any, throws; on success the app file's content is stored in the
\* session.  Either way createFullstackProject sets 'completed' and returns true.
ManagerFrontendWrite(s, k) ==
    /\ pc[s] = "frontendWrite"
    /\ driver[s] = "manager"
    /\ LET writes == ManagerFrontendWrites(Root(s), generatedFiles[s][1],
                                           Session(s).config.frontend, disk)
       IN  /\ k \in 0..Len(writes)
           /\ DoWrites(s, writes, k)
           /\ activeSessions' =
                SetStatus(IF k = Len(writes)
                          THEN [activeSessions EXCEPT ![s].frontendCode =
                                    <<generatedFiles[s][1].mainFile.content>>]
                          ELSE activeSessions,
                          s, "completed")
    /\ pc' = [pc EXCEPT ![s] = "returned"]
    /\ UNCHANGED <<driver, cancelled, aborted, generatedFiles, errorWrites, commandRuns,
                   requestsSent, parseVars>>

\* executeBuildPipeline after createFullFrontend returned (true or false):
\* status = 'completed', then the success prompt is shown and awaited.
Complete(s) ==
    /\ pc[s] = "frontendDone"
    /\ activeSessions' = SetStatus(activeSessions, s, "completed")
    /\ pc' = [pc EXCEPT ![s] = "prompt"]
    /\ UNCHANGED <<driver, cancelled, aborted, generatedFiles, dirs, disk, errorWrites,
                   commandRuns, requestsSent, written, parseVars>>

\* The prompt returns, or the UI call fails and executeBuildPipeline's catch
\* block assigns status and error and rethrows.
PromptReturn(s, ok) ==
    /\ pc[s] = "prompt"
    /\ IF ok
       THEN /\ pc' = [pc EXCEPT ![s] = "finished"]
            /\ UNCHANGED <<activeSessions, errorWrites>>
       ELSE /\ activeSessions' =
                 SetError(SetStatus(activeSessions, s, "error"), s, PromptFailed)
            /\ errorWrites' = [errorWrites EXCEPT ![s] = @ + 1]
            /\ pc' = [pc EXCEPT ![s] = "thrown"]
    /\ UNCHANGED <<driver, cancelled, aborted, generatedFiles, dirs, disk, commandRuns,
                   requestsSent, written, parseVars>>

Next ==
    \E s \in SessionIds :
        \/ \E config \in Configs, by \in {"pipeline", "manager"} : BuildDApp(s, config, by)
        \/ Cancel(s)
        \/ BackendStart(s)
        \/ \E outcome \in {"created", "partial", "nothing", "failed"} : DfxReturn(s, outcome)
        \/ \E resp \in BuildBackendResponses \cup {RequestFailed} : BackendResponse(s, resp)
        \/ \E k \in 0..3 : BackendWrite(s, k)
        \/ BackendFailed(s)
        \/ FrontendStart(s)
        \/ \E resp \in BuildFrontendResponses \cup {RequestFailed} : FrontendResponse(s, resp)
        \/ \E k \in 0..3, pj \in BOOLEAN : PipelineFrontendWrite(s, k, pj)
        \/ \E k \in 0..8 : ManagerFrontendWrite(s, k)
        \/ Complete(s)
        \/ \E ok \in BOOLEAN : PromptReturn(s, ok)

Spec == Init /\ [][Next]_vars

\* What a started build does next: the continuation of an awaited call
\* (scaffolding command, generation request, file writes, prompt) or the
\* synchronous code that follows a return.
Continue(s) ==
    \/ BackendStart(s)
    \/ \E outcome \in {"created", "partial", "nothing", "failed"} : DfxReturn(s, outcome)
    \/ \E resp \in BuildBackendResponses \cup {RequestFailed} : BackendResponse(s, resp)
    \/ \E k \in 0..3 : BackendWrite(s, k)
    \/ BackendFailed(s)
    \/ FrontendStart(s)
    \/ \E resp \in BuildFrontendResponses \cup {RequestFailed} : FrontendResponse(s, resp)
    \/ \E k \in 0..3, pj \in BOOLEAN : PipelineFrontendWrite(s, k, pj)
    \/ \E k \in 0..8 : ManagerFrontendWrite(s, k)
    \/ Complete(s)
    \/ \E ok \in BOOLEAN : PromptReturn(s, ok)

\* Every external call eventually returns or fails (the timeouts of execAsync
\* and axios.post, synchronous file writes), and the event loop runs every
\* continuation that is ready.
FairSpec == Spec /\ \A s \in SessionIds : WF_vars(Continue(s))

(***************************************************************************)
(* One run of the response parser, and cleanGeneratedCode on its own.      *)
(***************************************************************************)
ParseInit ==
    /\ BuildIdle
    /\ dirs = {}
    /\ \E in \in ParseInputs :
         /\ pSide = in[1]
         /\ pStack = in[2]
         /\ pResp = in[3]
    /\ pStage = "response"
    /\ pRaw = <<>>
    /\ pClean = <<>>
    /\ pSections = <<>>
    /\ pFiles = NoFiles
    /\ pWritten = <<>>

\* parseAIResponse, lines 184-206: the raw code, or null.
Normalize ==
    /\ pStage = "response"
    /\ LET raw == IF pSide = "backend" THEN BackendRawCode(pResp) ELSE FrontendRawCode(pResp)
       IN  IF raw = <<>>
           THEN pStage' = "null" /\ pRaw' = pRaw
           ELSE pStage' = "raw" /\ pRaw' = raw[1]
    /\ UNCHANGED <<pSide, pStack, pResp, pClean, pSections, pFiles, pWritten, buildVars>>

\* extractFilesFromResponse: const cleanContent = this.cleanGeneratedCode(content)
Clean ==
    /\ pStage = "raw"
    /\ pClean' = cleanGeneratedCode(pRaw, CleanTags(pSide))
    /\ pStage' = "clean"
    /\ UNCHANGED <<pSide, pStack, pResp, pRaw, pSections, pFiles, pWritten, buildVars>>

\* const extractedFiles = this.extractMarkdownSections(cleanContent)
Extract ==
    /\ pStage = "clean"
    /\ pSections' = IF pSide = "backend" THEN extractMarkdownSections(pClean)
                    ELSE extractFrontendMarkdownSections(pClean)
    /\ pStage' = "sections"
    /\ UNCHANGED <<pSide, pStack, pResp, pRaw, pClean, pFiles, pWritten, buildVars>>

\* The classification of the extracted map into the file set returned.
Classify ==
    /\ pStage = "sections"
    /\ pFiles' = IF pSide = "backend" THEN BackendFilesOf(pClean, pSections, pStack)
                 ELSE FrontendFilesOf(pClean, pSections, pStack)
    /\ pStage' = "files"
    /\ UNCHANGED <<pSide, pStack, pResp, pRaw, pClean, pSections, pWritten, buildVars>>

ParseRoot == "app1"

\* replaceBackendCode / replaceFrontendCode on the file set, every write succeeding.
Materialize ==
    /\ pStage = "files"
    /\ pWritten' = IF pSide = "backend" THEN ReplaceBackendWrites(ParseRoot, pFiles)
                   ELSE ReplaceFrontendWrites(ParseRoot, pFiles, pStack)
    /\ pStage' = "written"
    /\ UNCHANGED <<pSide, pStack, pResp, pRaw, pClean, pSections, pFiles, buildVars>>

ParseNext == Normalize \/ Clean \/ Extract \/ Classify \/ Materialize

ParseSpec == ParseInit /\ [][ParseNext]_vars

\* cleanGeneratedCode called on any text, the empty text included.
CleanInit ==
    /\ BuildIdle
    /\ dirs = {}
    /\ pSide \in {"backend", "frontend"}
    /\ pStack = IF pSide = "backend" THEN "rust" ELSE "react"
    /\ pResp = ShapeResponse("null")
    /\ pStage = "raw"
    /\ pRaw \in FreeTexts(pSide)
    /\ pClean = <<>>
    /\ pSections = <<>>
    /\ pFiles = NoFiles
    /\ pWritten = <<>>

CleanSpec == CleanInit /\ [][Clean]_vars

\* Texts with a fenced block inside wrapping quotes, escapes in the block, and
\* more text or another block after it.
MaxWrapped == 2

SideOpen(side) == IF side = "backend" THEN RustOpen ELSE JsxOpen

WrappedBlockTexts(side) ==
    {q1 \o open \o inner \o Fence \o rest \o q2 :
        q1 \in {<<>>, <<DQ>>, <<SQ>>},
        open \in {Fence, Fence \o <<LF>>, SideOpen(side)},
        inner \in Concats({<<"x">>, EscN, <<DQ>>, <<BTK>>, <<SP>>, <<BSL>>}, MaxWrapped),
        rest \in {<<>>, <<"x">>, Fence, SideOpen(side) \o <<"x">> \o Fence},
        q2 \in {<<>>, <<DQ>>, <<SQ>>}}

CleanTwiceInit ==
    /\ BuildIdle
    /\ dirs = {}
    /\ pSide \in {"backend", "frontend"}
    /\ pStack = IF pSide = "backend" THEN "rust" ELSE "react"
    /\ pResp = ShapeResponse("null")
    /\ pStage = "raw"
    /\ pRaw \in FreeTexts(pSide) \cup WrappedBlockTexts(pSide)
    /\ pClean = <<>>
    /\ pSections = <<>>
    /\ pFiles = NoFiles
    /\ pWritten = <<>>

\* cleanGeneratedCode called on its own result: pRaw holds the first result,
\* pClean the second.
Reclean ==
    /\ pStage = "clean"
    /\ pRaw' = pClean
    /\ pClean' = cleanGeneratedCode(pClean, CleanTags(pSide))
    /\ pStage' = "recleaned"
    /\ UNCHANGED <<pSide, pStack, pResp, pSections, pFiles, pWritten, buildVars>>

CleanTwiceNext == Clean \/ Reclean

CleanTwiceSpec == CleanTwiceInit /\ [][CleanTwiceNext]_vars

\* extractMarkdownSections and the classification on texts that still hold fenced
\* blocks: whole blocks of every scanned tag, and loose fences and openers.
MaxBlocks == 3

TagJs == <<"j", "s">>

Block(tag, inner) == Fence \o tag \o <<LF>> \o inner \o Fence

SectionTags(side) == IF side = "backend" THEN BackendSectionTags ELSE FrontendSectionTags

SectionPieces(side) ==
    {Block(SectionTags(side)[i], <<SP, "x", LF>>) : i \in 1..Len(SectionTags(side))}
        \cup {Block(SectionTags(side)[1], <<"y">>), Block(TagJs, <<"x">>), Fence, <<"x">>, <<LF>>,
              Fence \o SectionTags(side)[1], Fence \o SectionTags(side)[1] \o <<LF>>}

SectionTexts(side) == Concats(SectionPieces(side), MaxBlocks)

ExtractInit ==
    /\ BuildIdle
    /\ dirs = {}
    /\ pSide \in {"backend", "frontend"}
    /\ pStack \in (IF pSide = "backend" THEN {"motoko", "rust"} ELSE {"react", "nextjs"})
    /\ pResp = ShapeResponse("null")
    /\ pStage = "clean"
    /\ pRaw = <<>>
    /\ pClean \in SectionTexts(pSide)
    /\ pSections = <<>>
    /\ pFiles = NoFiles
    /\ pWritten = <<>>

ExtractNext == Extract \/ Classify

ExtractSpec == ExtractInit /\ [][ExtractNext]_vars

\* The classification on maps with filenames of every kind, more than the
\* extractor's fixed ones.
MaxEntries == 3

UtilsRs == <<"u", "t", "i", "l", "s", ".", "r", "s">>
MylibRs == <<"m", "y", "l", "i", "b", ".", "r", "s">>
LibTxt == <<"l", "i", "b", ".", "t", "x", "t">>
MainDid == <<"m", "a", "i", "n", ".", "d", "i", "d">>
HelperMo == <<"h", "e", "l", "p", "e", "r", ".", "m", "o">>
ButtonTsx == <<"B", "u", "t", "t", "o", "n", ".", "t", "s", "x">>
AppCss == <<"A", "p", "p", ".", "c", "s", "s">>
StylesTsx == <<"s", "t", "y", "l", "e", "s", ".", "t", "s", "x">>
ThemeSass == <<"t", "h", "e", "m", "e", ".", "s", "a", "s", "s">>
StyleJson == <<"s", "t", "y", "l", "e", ".", "j", "s", "o", "n">>
ReadmeMd == <<"R", "E", "A", "D", "M", "E", ".", "m", "d">>

Filenames(side) ==
    IF side = "backend"
    THEN {MainMo, LibRs, BackendDid, CargoToml, UtilsRs, MylibRs, LibTxt, MainDid, HelperMo}
    ELSE {AppJsx, AppTsx, PageTsx, GlobalsCss, IndexScss, PackageJson, ButtonTsx, AppCss,
          StylesTsx, ThemeSass, StyleJson, ReadmeMd}

\* The maps of up to n entries with distinct keys; a file's content is its name.
RECURSIVE Maps(_, _)
Maps(names, n) ==
    IF n = 0 THEN {<<>>}
    ELSE LET shorter == Maps(names, n - 1)
         IN  shorter \cup {Append(m, File(f, f)) :
                             m \in shorter, f \in names}

DistinctKeys(m) == \A i, j \in 1..Len(m) : m[i].filename = m[j].filename => i = j

ClassifyInit ==
    /\ BuildIdle
    /\ dirs = {}
    /\ pSide \in {"backend", "frontend"}
    /\ pStack \in (IF pSide = "backend" THEN {"motoko", "rust"} ELSE {"react", "nextjs"})
    /\ pResp = ShapeResponse("null")
    /\ pStage = "sections"
    /\ pRaw = <<>>
    /\ pClean = <<"x", LF>>
    /\ pSections \in {m \in Maps(Filenames(pSide), MaxEntries) : Len(m) >= 1 /\ DistinctKeys(m)}
    /\ pFiles = NoFiles
    /\ pWritten = <<>>

ClassifySpec == ClassifyInit /\ [][Classify]_vars

\* Response normalization on responses of every shape: objects whose members
\* are absent, an empty string, a text naming the member, or not a string.
FieldText(f) ==
    CASE f = "generatedCode" -> <<"g">>
      [] f = "code" -> <<"c">>
      [] f = "message" -> <<"m">>
      [] f = "data" -> <<"d">>
      [] f = "content" -> <<"n">>
      [] OTHER -> <<"r">>

ShapedObjects ==
    {ObjectResponse(fields) :
        fields \in {fs \in [FieldNames -> {Absent, Other, Str(<<>>)}
                                             \cup {Str(FieldText(f)) : f \in FieldNames}] :
                      \A f \in FieldNames : fs[f].s \in {<<>>, FieldText(f)}}}

ShapedResponses ==
    ShapedObjects
        \cup {StringResponse(<<>>), StringResponse(<<"x">>), StringResponse(<<SP>>),
              StringResponse(RustBlockText)}
        \cup {ShapeResponse("array"), ShapeResponse("number"), ShapeResponse("null")}

NormalizeInit ==
    /\ BuildIdle
    /\ dirs = {}
    /\ pSide \in {"backend", "frontend"}
    /\ pStack = IF pSide = "backend" THEN "rust" ELSE "react"
    /\ pResp \in ShapedResponses
    /\ pStage = "response"
    /\ pRaw = <<>>
    /\ pClean = <<>>
    /\ pSections = <<>>
    /\ pFiles = NoFiles
    /\ pWritten = <<>>

NormalizeSpec == NormalizeInit /\ [][Normalize]_vars

\* replaceBackendCode / replaceFrontendCode on a classified file set when the write
\* after the first k throws: the catch block logs and returns false.
MaterializeFails(k) ==
    /\ pStage = "files"
    /\ LET writes == IF pSide = "backend" THEN ReplaceBackendWrites(ParseRoot, pFiles)
                     ELSE ReplaceFrontendWrites(ParseRoot, pFiles, pStack)
       IN  /\ k < Len(writes)
           /\ pWritten' = SubSeq(writes, 1, k)
    /\ pStage' = "writeFailed"
    /\ UNCHANGED <<pSide, pStack, pResp, pRaw, pClean, pSections, pFiles, buildVars>>

MaterializeNext == Classify \/ Materialize \/ \E k \in 0..MaxEntries : MaterializeFails(k)

MaterializeSpec == ClassifyInit /\ [][MaterializeNext]_vars

\* extractFilesFromResponse and extractFrontendFilesFromResponse on raw texts
\* that hold up to MaxRaw pieces (tagged blocks, fences, unclosed openers,
\* quotes and escapes) or a block inside wrapping quotes with text after it.
MaxRaw == 2

RawPieces(side) == SectionPieces(side) \cup {<<DQ>>, EscN, <<BSL>>}

RawTexts(side) == Concats(RawPieces(side), MaxRaw)

ExtractFilesInit ==
    /\ BuildIdle
    /\ dirs = {}
    /\ pSide \in {"backend", "frontend"}
    /\ pStack \in (IF pSide = "backend" THEN {"motoko", "rust"} ELSE {"react", "nextjs"})
    /\ pResp = ShapeResponse("null")
    /\ pStage = "raw"
    /\ pRaw \in RawTexts(pSide) \cup WrappedBlockTexts(pSide)
    /\ pClean = <<>>
    /\ pSections = <<>>
    /\ pFiles = NoFiles
    /\ pWritten = <<>>

ExtractFilesNext == Clean \/ Extract \/ Classify

ExtractFilesSpec == ExtractFilesInit /\ [][ExtractFilesNext]_vars

(***************************************************************************)
(* Properties of the build (specification Spec).                           *)
(***************************************************************************)
StatusOrder == <<"pending", "creating-project", "building-backend", "building-frontend",
                 "completed">>

Rank(status) == CHOOSE i \in 1..Len(StatusOrder) : StatusOrder[i] = status

Ordered(status) == \E i \in 1..Len(StatusOrder) : StatusOrder[i] = status

Started == DOMAIN activeSessions

Settled(s) == pc[s] \in {"finished", "thrown", "returned"}

\* The steps of createFullBackend.
InCreateFullBackend(s) == pc[s] \in {"start", "dfx", "backendRequest", "backendWrite"}

\* C1: with pending < creating-project < building-backend < building-frontend
\* < completed, no step of a build changes a session's status to a phase
\* earlier in this order than its current status.
C1_NoBackwardTransition ==
    [][\A s \in Started :
         (Ordered(activeSessions[s].status) /\ Ordered(activeSessions'[s].status))
            => Rank(activeSessions'[s].status) >= Rank(activeSessions[s].status)]_vars

\* C2: completed and error are terminal: once a session's status is completed
\* or error, no later step changes the status to any other value.
C2_TerminalStatuses ==
    [][\A s \in Started :
         activeSessions[s].status \in {"completed", "error"}
            => activeSessions'[s].status = activeSessions[s].status]_vars

\* C3: every status change made by createFullBackend or createFullFrontend
\* moves the session to the immediately next phase of the order or to error;
\* no component skips a phase.
C3_ComponentsStepOnePhase ==
    [][\A s \in Started :
         (/\ InCreateFullBackend(s)
          /\ activeSessions'[s].status # activeSessions[s].status)
            => \/ activeSessions'[s].status = "error"
               \/ Rank(activeSessions'[s].status) = Rank(activeSessions[s].status) + 1]_vars

\* The backend request was answered and gave no code; likewise the frontend one.
BackendGenerationFailed(s) ==
    /\ requestsSent[s].backend > 0
    /\ pc[s] # "backendRequest"
    /\ activeSessions[s].backendCode = <<>>

FrontendGenerationFailed(s) ==
    /\ requestsSent[s].frontend > 0
    /\ pc[s] # "frontendRequest"
    /\ generatedFiles[s] = <<>>

WrittenUnder(s, stageDirs) ==
    \E i \in 1..Len(written[s]) : written[s][i].path.dir \in stageDirs

\* C4: whenever a generation call (backend or frontend) fails, times out or
\* returns a payload with no code text, the build ends with the session's status
\* error and no generated file of that stage written to disk.
C4_GenerationFailureIsError ==
    \A s \in Started :
        /\ (Settled(s) /\ BackendGenerationFailed(s))
              => /\ activeSessions[s].status = "error"
                 /\ ~WrittenUnder(s, {BackendSrc})
        /\ (Settled(s) /\ FrontendGenerationFailed(s))
              => /\ activeSessions[s].status = "error"
                 /\ ~WrittenUnder(s, {FrontendSrc, FrontendApp, FrontendUtils, FrontendDir})

\* The message of createDfxProject's log line for an existing directory.
ProjectDirectoryAlreadyExists == "Project directory already exists"

\* C5: when a build starts for a project whose target directory already exists,
\* project creation fails, the scaffolding command is not run, no file is
\* written, and the session is in status error with an error message that
\* identifies the path conflict.
C5_ExistingDirectoryReported ==
    [][\A s \in Started :
         (pc[s] = "start" /\ pc'[s] # "start" /\ Dir(Root(s), RootDir) \in dirs)
            => /\ pc'[s] = "backendFailed"
               /\ commandRuns'[s] = 0
               /\ written'[s] = <<>>
               /\ dirs' = dirs
               /\ activeSessions'[s].status = "error"
               /\ activeSessions'[s].error = <<ProjectDirectoryAlreadyExists>>]_vars

\* C6: the session's error field is written at most once during a build.
C6_ErrorWrittenOnce == \A s \in SessionIds : errorWrites[s] <= 1

(***************************************************************************)
(* Properties of the response parser (ParseSpec) and cleaner (CleanSpec).  *)
(***************************************************************************)
SourceOpen(backend) == IF backend = "rust" THEN RustOpen ELSE MotokoOpen

\* The responses with one block of the backend's language and one candid block,
\* as <<text, inner text of the source block, inner text of the candid block>>.
SourceAndCandid(backend) ==
    {<<pre \o SourceOpen(backend) \o src \o Fence \o sep \o CandidOpen \o did \o Fence \o post,
       src, did>> :
        pre \in {<<>>, Hello \o <<LF>>}, src \in BlockInners,
        sep \in {<<LF>>, <<LF>> \o Hello \o <<LF>>}, did \in BlockInners,
        post \in {<<>>, <<LF>>}}

HasWrite(writes, name, content) ==
    \E i \in 1..Len(writes) :
        writes[i] = Write(Path(ParseRoot, BackendSrc, name), content)

\* C7: a backend response with a block tagged with the source language and a
\* block tagged candid yields a primary file holding the source block's trimmed
\* content and the interface file backend.did holding the candid block's
\* trimmed content, and both files are written.
C7_SourceAndCandidExtracted ==
    \A r \in SourceAndCandid(pStack) :
        (pSide = "backend" /\ pStage = "written" /\ pResp = GeneratedCodeObject(r[1]))
            => /\ pFiles.mainFile.content = Trim(r[2])
               /\ pFiles.sideFile = <<File(BackendDid, Trim(r[3]))>>
               /\ HasWrite(pWritten, pFiles.mainFile.filename, Trim(r[2]))
               /\ HasWrite(pWritten, BackendDid, Trim(r[3]))

\* t is exactly one rust-tagged fenced block: the opener, an inner text, the
\* closing fence, and no other fence.
IsSingleRustBlock(t) ==
    /\ Len(t) >= Len(RustOpen) + Len(Fence)
    /\ StartsWith(t, RustOpen)
    /\ IndexOfFrom(t, Fence, Len(RustOpen) + 1) = Len(t) - 2

InnerText(t) == SubSeq(t, Len(RustOpen) + 1, Len(t) - Len(Fence))

SingleRustBlockParsed(t) ==
    /\ pSide = "backend"
    /\ pStack = "rust"
    /\ pStage = "files"
    /\ pResp = GeneratedCodeObject(t)
    /\ IsSingleRustBlock(t)

OnlyLibRs(content) == FileSet(File(LibRs, content), <<>>, <<>>)

\* C8 as stated: for a rust backend, a generatedCode that is exactly one
\* rust-tagged fenced block yields primary file lib.rs holding the inner text
\* trimmed and followed by one line feed, no interface file, no additional files.
C8_SingleRustBlock_AsStated ==
    \A t \in SingleBlockTexts :
        SingleRustBlockParsed(t) => pFiles = OnlyLibRs(Trim(InnerText(t)) \o <<LF>>)

\* C8: the same, for an inner text that holds no backslash-n and no carriage
\* return.
C8_SingleRustBlock ==
    \A t \in SingleBlockTexts :
        (/\ SingleRustBlockParsed(t)
         /\ ~Includes(InnerText(t), EscN)
         /\ ~Includes(InnerText(t), <<CR>>))
            => pFiles = OnlyLibRs(Trim(InnerText(t)) \o <<LF>>)

C8_Witness ==
    /\ SingleRustBlockParsed(RustBlockText)
    /\ pFiles = OnlyLibRs(FnX \o <<LF>>)

\* Every escape turned into the real character, in one pass from the left.
RECURSIVE DecodeEscapes(_)
DecodeEscapes(t) ==
    IF t = <<>> THEN <<>>
    ELSE IF Len(t) >= 2 /\ t[1] = BSL /\ t[2] \in {"n", "t", DQ}
         THEN <<CASE t[2] = "n" -> LF [] t[2] = "t" -> TAB [] OTHER -> DQ>>
                  \o DecodeEscapes(SubSeq(t, 3, Len(t)))
         ELSE <<t[1]>> \o DecodeEscapes(Tail(t))

\* Every backslash of t starts one of the escapes backslash-n, -t, -quote.
OnlyEscapes(t) ==
    \A i \in 1..Len(t) : t[i] = BSL => (i < Len(t) /\ t[i + 1] \in {"n", "t", DQ})

QuoteWrapped(t) == StartsWith(t, <<DQ>>) /\ EndsWith(t, <<DQ>>)

EscapedCodeParsed(t) ==
    /\ pSide = "backend"
    /\ pStage = "files"
    /\ pResp = CodeObject(t)
    /\ OnlyEscapes(t)
    /\ ~QuoteWrapped(DecodeEscapes(t))

C10_OneTrailingLineFeed ==
    pStage = "clean"
        => /\ Len(pClean) >= 1
           /\ pClean[Len(pClean)] = LF
           /\ Len(pClean) >= 2 => pClean[Len(pClean) - 1] \notin Whitespace
           /\ \A i \in 1..Len(pClean) : pClean[i] # CR

C10_Witness ==
    /\ pStage = "clean"
    /\ pRaw = <<SP, CR, LF>>
    /\ pClean = <<LF>>

\* C11: cleanGeneratedCode is idempotent: for every input text, with any mix of
\* escape sequences, wrapping quotes and fenced blocks, cleaning the cleaned
\* text gives the cleaned text again.
C11_CleanIdempotent == pStage = "recleaned" => pClean = pRaw

\* The result of cleaning an escaped text in a fenced block, cleaned again.
C11_Witness ==
    /\ pStage = "recleaned"
    /\ pSide = "backend"
    /\ pRaw = <<"x", LF, DQ, LF>>
    /\ pClean = pRaw

\* The tags the extractor's scan matches.
ScannedTags(side) ==
    IF side = "backend" THEN {TagMotoko, TagRust, TagCandid, TagToml}
    ELSE {TagJsx, TagTsx, TagJavascript, TagTypescript, TagCss, TagScss, TagJson}

\* s holds a fenced block with a scanned tag: an opener, the tag, a line feed,
\* and a closing fence after it.
HasScannedBlock(s, side) ==
    \E tag \in ScannedTags(side), i \in 1..Len(s) :
        /\ StartsWithAt(s, Fence \o tag \o <<LF>>, i)
        /\ \E j \in (i + 4 + Len(tag))..Len(s) : StartsWithAt(s, Fence, j)

\* C12: for every text with no fenced block of a recognized tag,
\* extractMarkdownSections returns exactly one entry, under the key 'main',
\* whose value is the input verbatim; and for every input the mapping has at
\* least one entry.
C12_SentinelEntry ==
    pStage = "sections"
        => /\ Len(pSections) >= 1
           /\ ~HasScannedBlock(pClean, pSide) => pSections = <<File(MainKey, pClean)>>

\* A text with a fence, an unclosed opener and surrounding line feeds.
C12_Witness ==
    /\ pStage = "sections"
    /\ pClean = <<LF>> \o Fence \o TagMotoko \o <<LF, LF>>
    /\ pSections = <<File(MainKey, pClean)>>

\* The fixed filename of each tag that has one.
TagFilenames ==
    {<<TagMotoko, MainMo>>, <<TagRust, LibRs>>, <<TagCandid, BackendDid>>,
     <<TagToml, CargoToml>>, <<TagJsx, AppJsx>>, <<TagTsx, AppTsx>>,
     <<TagCss, GlobalsCss>>, <<TagScss, IndexScss>>, <<TagJson, PackageJson>>}

\* Texts made of whole blocks and plain text only: every block is matched.
WholeBlockTexts(side) ==
    Concats({Block(tag, <<SP, "x", LF>>) : tag \in ScannedTags(side)}
                \cup {Block(SectionTags(side)[1], <<"y">>), <<"x">>, <<LF>>},
            MaxBlocks)

\* The mapping has an entry for a block of this tag: under the tag's fixed
\* filename (under some filename of its own, if the tag has none), holding the
\* trimmed inner content of a block of this tag that the text contains.
HasEntryFor(tag) ==
    \E i \in 1..Len(pSections) :
        /\ IF \E tf \in TagFilenames : tf[1] = tag
           THEN <<tag, pSections[i].filename>> \in TagFilenames
           ELSE /\ pSections[i].filename # MainKey
                /\ \A tf \in TagFilenames : tf[2] # pSections[i].filename
        /\ \E inner \in {<<SP, "x", LF>>, <<"y">>} :
              /\ Includes(pClean, Block(tag, inner))
              /\ pSections[i].content = Trim(inner)

MatchedTagsHaveEntries(tags) ==
    (pStage = "sections" /\ pClean \in WholeBlockTexts(pSide))
        => \A tag \in tags : Includes(pClean, Fence \o tag \o <<LF>>) => HasEntryFor(tag)

\* C13: every fenced block that the extractor's scan matches (backend tags
\* motoko, rust, candid, toml; frontend tags jsx, tsx, javascript, typescript,
\* css, scss, json) produces an entry keyed by the fixed filename of its tag with
\* the block's trimmed inner content; no matched block is dropped.
C13_MatchedBlocksKept == MatchedTagsHaveEntries(ScannedTags(pSide))

Dot(ext) == <<".">> \o ext

\* The stack's source extensions, canonical main filename and main stems.
SourceExtensions(stack) ==
    CASE stack = "motoko" -> {Dot(TagMo)}
      [] stack = "rust" -> {Dot(TagRs)}
      [] OTHER -> {Dot(TagTsx), Dot(TagJsx)}

CanonicalMain(stack) ==
    CASE stack = "motoko" -> MainMo
      [] stack = "rust" -> LibRs
      [] stack = "nextjs" -> PageTsx
      [] OTHER -> AppJsx

MainStems(stack) ==
    CASE stack = "motoko" -> {<<"m", "a", "i", "n">>}
      [] stack = "rust" -> {<<"l", "i", "b">>}
      [] stack = "nextjs" -> {<<"p", "a", "g", "e">>, <<"A", "p", "p">>}
      [] OTHER -> {<<"A", "p", "p">>, <<"a", "p", "p">>}

PrimaryByRule(filename, stack) ==
    /\ \E ext \in SourceExtensions(stack) : EndsWith(filename, ext)
    /\ \/ filename = CanonicalMain(stack)
       \/ \E stem \in MainStems(stack) : Includes(filename, stem)

Classified == pStage = "files" /\ Len(pSections) > 1

Entries == {pSections[i] : i \in 1..Len(pSections)}

\* C14: a filename is classified as primary only if its extension is the stack's
\* source extension and its name equals the canonical main filename or contains
\* the canonical main stem: a file of the map that ends in the primary slot
\* satisfies this rule.
C14_PrimaryRule ==
    (Classified /\ pFiles.mainFile \in Entries)
        => PrimaryByRule(pFiles.mainFile.filename, pStack)

StyleLike(filename) ==
    \/ \E ext \in {Dot(TagCss), Dot(TagScss), <<".", "s", "a", "s", "s">>} :
          EndsWith(filename, ext)
    \/ Includes(filename, <<"s", "t", "y", "l", "e">>)

\* C15: in the frontend classification, a filename that ends in .css, .scss or
\* .sass or contains 'style' is never placed in the primary or the additional
\* slot.
C15_StylesInStyleSlot ==
    (Classified /\ pSide = "frontend")
        => \A e \in Entries :
             StyleLike(e.filename)
                => /\ pFiles.mainFile # e
                   /\ \A i \in 1..Len(pFiles.additionalFiles) : pFiles.additionalFiles[i] # e

Normalized == pStage \in {"raw", "null"}

HoldsText(f) == pResp.fields[f].t = "string" /\ pResp.fields[f].s # <<>>

BackendFieldOrder == <<"generatedCode", "code", "message", "data", "content", "result">>

\* C16: for a response object, BackendBuilder.parseAIResponse takes generatedCode
\* when it holds a non-empty string, and otherwise the first of code, message,
\* data, content, result, in this order, that holds a non-empty string.
C16_BackendFieldPriority ==
    (Normalized /\ pSide = "backend" /\ pResp.kind = "object")
        => \A k \in 1..Len(BackendFieldOrder) :
             (/\ HoldsText(BackendFieldOrder[k])
              /\ \A j \in 1..(k - 1) : ~HoldsText(BackendFieldOrder[j]))
                => (pStage = "raw" /\ pRaw = pResp.fields[BackendFieldOrder[k]].s)

\* generatedCode empty, code not a string, message and data both texts: message.
C16_Witness ==
    /\ pStage = "raw"
    /\ pSide = "backend"
    /\ pResp = ObjectResponse([NoFields EXCEPT !["generatedCode"] = Str(<<>>),
                                               !["code"] = Other,
                                               !["message"] = Str(<<"m">>),
                                               !["data"] = Str(<<"d">>),
                                               !["result"] = Str(<<"r">>)])
    /\ pRaw = <<"m">>

NoFieldHoldsText == \A f \in FieldNames : ~HoldsText(f)

OtherShapesFail ==
    (pResp.kind \in {"array", "number", "null"} \/ (pResp.kind = "object" /\ NoFieldHoldsText))
        => pStage = "null"

\* C17 as stated: normalization yields a raw-code string or failure; every
\* response that is itself a string, of any length, is used directly as the raw
\* code, and every other shape yields failure.
C17_StringsUsedDirectly_AsStated ==
    Normalized
        => /\ pResp.kind = "string" => (pStage = "raw" /\ pRaw = pResp.str)
           /\ OtherShapesFail

\* C17: every response that is itself a non-empty string is used directly as the
\* raw code; the empty string and every other shape (array, number, null, object
\* with no member holding a non-empty string) yield failure.
C17_StringsUsedDirectly ==
    Normalized
        => /\ (pResp.kind = "string" /\ pResp.str # <<>>) => (pStage = "raw" /\ pRaw = pResp.str)
           /\ (pResp.kind = "string" /\ pResp.str = <<>>) => pStage = "null"
           /\ OtherShapesFail

C17_Witness ==
    /\ pStage = "raw"
    /\ pResp = StringResponse(<<SP>>)
    /\ pRaw = <<SP>>

\* The contents of a file set in the order primary, interface/style, additional.
ContentsInOrder(files) ==
    LET fileSeq == <<files.mainFile>> \o files.sideFile \o files.additionalFiles
    IN  [i \in 1..Len(fileSeq) |-> fileSeq[i].content]

WrittenContents == [i \in 1..Len(pWritten) |-> pWritten[i].content]

\* C18: materialization writes the primary file first, then the interface/style
\* file, then the additional files in list order; if a write fails the operation
\* returns failure, the files written before the failure are the files before it
\* in this order, with their new content, and no later file is written.
C18_WriteOrderAndAbort ==
    /\ pStage = "written" => WrittenContents = ContentsInOrder(pFiles)
    /\ pStage = "writeFailed"
          => /\ Len(pWritten) < Len(ContentsInOrder(pFiles))
             /\ WrittenContents = SubSeq(ContentsInOrder(pFiles), 1, Len(pWritten))

\* A backend file set with all three kinds of file, failing at the third write.
C18_Witness ==
    /\ pStage = "writeFailed"
    /\ pSide = "backend"
    /\ pStack = "rust"
    /\ pSections = <<File(UtilsRs, UtilsRs), File(BackendDid, BackendDid), File(LibRs, LibRs)>>
    /\ WrittenContents = <<LibRs, BackendDid>>

\* The canonical path of the primary file of each stack under the project root.
CanonicalPrimaryPath(root, stack) ==
    CASE stack = "motoko" -> Path(root, "src/<proj>_backend", MainMo)
      [] stack = "rust" -> Path(root, "src/<proj>_backend", LibRs)
      [] stack = "nextjs" -> Path(root, "src/<proj>_frontend/src/app", PageTsx)
      [] OTHER -> Path(root, "src/<proj>_frontend/src", AppJsx)

\* C19: every materialization of a primary file writes it at the stack's
\* canonical path under the project root, whichever component performs the write:
\* a write of a file named main.mo or lib.rs goes to the backend's canonical
\* path, a write of a file named page.tsx or App.jsx to the frontend's.
C19_PrimaryAtCanonicalPath ==
    \A s \in Started :
        \A i \in 1..Len(written[s]) :
            LET path == written[s][i].path
            IN  /\ path.name \in {MainMo, LibRs}
                    => path = CanonicalPrimaryPath(Root(s), activeSessions[s].config.backend)
                /\ path.name \in {PageTsx, AppJsx}
                    => path = CanonicalPrimaryPath(Root(s), activeSessions[s].config.frontend)

InFlight == {"backendRequest", "frontendRequest"}

Issues(s) == pc[s] \notin InFlight /\ pc'[s] \in InFlight

Settles(s) == pc[s] \in InFlight /\ pc'[s] # pc[s]

StageSucceeded(s) == pc[s] \in {"backendWrite", "frontendWrite"}

\* The stage whose call was made with a fired signal has returned null: nothing
\* generated is held, and nothing of that stage is or will be on disk.
AbortedStageFailed(s) ==
    /\ ~StageSucceeded(s)
    /\ generatedFiles[s] = <<>>
    /\ IF requestsSent[s].frontend = 0
       THEN /\ pc[s] \in {"backendFailed", "thrown", "returned"}
            /\ Session(s).backendCode = <<>>
            /\ written[s] = <<>>
       ELSE /\ pc[s] \in {"frontendDone", "prompt", "finished", "thrown", "returned"}
            /\ Session(s).frontendCode = <<>>
            /\ ~WrittenUnder(s, {FrontendDir, FrontendSrc, FrontendApp, FrontendUtils})

\* Some outcome of the pending call is a response from which the stage's files
\* are parsed.
CanStillSucceed(s) ==
    IF pc[s] = "backendRequest"
    THEN \E resp \in PostOutcomes(aborted[s], BuildBackendResponses) \ {RequestFailed} :
             parseAIResponse(resp, Session(s).config.backend) # <<>>
    ELSE \E resp \in PostOutcomes(aborted[s], BuildFrontendResponses) \ {RequestFailed} :
             parseAIFrontendResponse(resp, Session(s).config.frontend) # <<>>

\* C20: if cancellation has already been requested when buildBackendCode or
\* buildFrontendCode issues its network call, the call is made with a signal that
\* fires at once, and the stage returns failure, stores no generated text in the
\* session and writes no generated file; a cancellation requested after the call
\* was issued changes nothing of the stage, which can still succeed.
C20_CancelBeforeCallOnly ==
    /\ [](\A s \in Started :
            /\ (aborted[s] /\ pc[s] \notin InFlight) => AbortedStageFailed(s)
            /\ (~aborted[s] /\ pc[s] \in InFlight) => CanStillSucceed(s))
    /\ [][\A s \in SessionIds :
            /\ Issues(s) => (aborted'[s] <=> cancelled[s])
            /\ (Settles(s) /\ aborted[s])
                 => /\ ~StageSucceeded(s)'
                    /\ generatedFiles'[s] = generatedFiles[s]
                    /\ activeSessions'[s].backendCode = activeSessions[s].backendCode
                    /\ activeSessions'[s].frontendCode = activeSessions[s].frontendCode
                    /\ UNCHANGED <<disk, written>>
            /\ (cancelled'[s] /\ ~cancelled[s])
                 => UNCHANGED <<activeSessions, pc, aborted, generatedFiles, disk, written>>]_vars

\* One build was cancelled before its backend call and has failed; another was
\* cancelled while its backend call is in flight and can still succeed.
C20_Witness ==
    \E s, t \in Started :
        /\ cancelled[s] /\ aborted[s] /\ pc[s] = "backendFailed"
        /\ requestsSent[s].backend = 1
        /\ cancelled[t] /\ ~aborted[t] /\ pc[t] = "backendRequest"
        /\ CanStillSucceed(t)

SomethingFailed(s) ==
    \/ pc[s] \in {"backendFailed", "thrown"}
    \/ Session(s).error # <<>>

\* C21: nothing is retried: within one build session the scaffolding command is
\* run at most once and each generation endpoint is requested at most once,
\* whatever failures occur.
C21_NothingRetried ==
    \A s \in SessionIds :
        /\ commandRuns[s] <= 1
        /\ requestsSent[s].backend <= 1
        /\ requestsSent[s].frontend <= 1

\* A build whose frontend generation failed after every call was made once.
C21_Witness ==
    \E s \in Started :
        /\ SomethingFailed(s)
        /\ pc[s] \in {"thrown", "finished", "returned"}
        /\ commandRuns[s] = 1
        /\ requestsSent[s].backend = 1
        /\ requestsSent[s].frontend = 1

\* Control is inside createFullBackend, createFullFrontend or enhanceFrontend.
InsideStage ==
    {"start", "dfx", "backendRequest", "backendWrite", "frontendRequest", "frontendWrite"}

Throws(s) == pc[s] # "thrown" /\ pc'[s] = "thrown"

\* C22: no stage lets an exception escape: a scaffolding, network, parse or
\* filesystem fault inside a stage ends the stage with a false return, and only
\* executeBuildPipeline, after a stage has returned, throws.
C22_OnlyPipelineThrows ==
    [][\A s \in SessionIds :
          /\ Throws(s) => /\ driver[s] = "pipeline"
                          /\ pc[s] \in {"backendFailed", "prompt"}
          /\ (pc[s] \in InsideStage /\ pc'[s] \notin InsideStage)
               => pc'[s] \in {"backendFailed", "backendDone", "frontendDone", "returned"}]_vars

\* A write fault in replaceBackendCode came back as false and was thrown by
\* executeBuildPipeline in one build, and returned as false by
\* createFullstackProject in another.
C22_Witness ==
    \E s, t \in Started :
        /\ driver[s] = "pipeline" /\ pc[s] = "thrown"
        /\ Session(s).error = <<FailedToReplaceBackend>>
        /\ driver[t] = "manager" /\ pc[t] = "returned"
        /\ Session(t).error = <<FailedToReplaceBackend>>

\* The step is taken for session s: its control point or its cancellation
\* request changes.
StepOf(s) == pc'[s] # pc[s] \/ cancelled'[s] # cancelled[s]

\* C23: build sessions are independent: every step taken for one session leaves
\* the registry entry (status, error, generated text, project path) of every
\* other session unchanged, and creating a session never removes or replaces an
\* existing entry.
C23_SessionsIndependent ==
    [][/\ Started \subseteq DOMAIN activeSessions'
       /\ \A s \in SessionIds :
              StepOf(s) => \A t \in Started \ {s} : activeSessions'[t] = activeSessions[t]]_vars

\* Two builds run at once: one has failed while the other's backend request is
\* in flight.
C23_Witness ==
    \E s, t \in Started :
        /\ s # t
        /\ pc[s] = "backendRequest" /\ Session(s).status = "building-backend"
        /\ Session(t).status = "error" /\ Session(t).error # <<>>

\* buildFrontendCode's requestPayload.backendCode: session.backendCode || ''.
FrontendPayloadBackendCode(s) ==
    IF Session(s).backendCode = <<>> THEN <<>> ELSE Session(s).backendCode[1]

IssuesBackendRequest(s) == pc[s] # "backendRequest" /\ pc'[s] = "backendRequest"

IssuesFrontendRequest(s) == pc[s] # "frontendRequest" /\ pc'[s] = "frontendRequest"

WritesBackendFiles(s) == pc[s] = "backendWrite" /\ written'[s] # written[s]

\* C24: within one build the stages run in sequence: the backend request is
\* issued only once scaffolding has succeeded and the project path is recorded;
\* backend files are written only once backend generation has returned a file
\* set; the frontend request is issued only once the backend files are written,
\* and carries the backend primary file's content as backendCode.
C24_StagesInSequence ==
    [][\A s \in SessionIds :
          /\ IssuesBackendRequest(s)
               => /\ commandRuns[s] = 1
                  /\ Dir(Root(s), RootDir) \in dirs'
                  /\ Dir(Root(s), BackendSrc) \in dirs'
                  /\ activeSessions'[s].projectPath = <<Root(s)>>
                  /\ written[s] = <<>>
          /\ WritesBackendFiles(s)
               => /\ requestsSent[s].backend = 1
                  /\ generatedFiles[s] # <<>>
                  /\ requestsSent[s].frontend = 0
          /\ IssuesFrontendRequest(s)
               => /\ generatedFiles[s] # <<>>
                  /\ written[s] = ReplaceBackendWrites(Root(s), generatedFiles[s][1])
                  /\ written[s][1] =
                       Write(Path(Root(s), BackendSrc,
                                  BackendMainName(Session(s).config.backend)),
                             FrontendPayloadBackendCode(s))]_vars

\* The frontend request of a build is in flight, its backend files on disk.
C24_Witness ==
    \E s \in Started :
        /\ pc[s] = "frontendRequest"
        /\ written[s] # <<>>
        /\ disk[written[s][1].path] = FrontendPayloadBackendCode(s)

\* The text on which cleanGeneratedCode calls removeMarkdownCodeBlocks.
FenceStepInput == StripQuotes(NormalizeLineEndings(Unescape(pRaw)))

\* The text has a fenced block and a non-whitespace character before the first
\* block's opening fence or after its closing fence.
TextOutsideFirstBlock(code, tags) ==
    LET m == FirstOptBlock(code, tags)
    IN  /\ m[1] # 0
        /\ \E i \in (1..(m[1] - 1)) \cup ((m[2] + 1)..Len(code)) : code[i] \notin Whitespace

\* C25: when there is non-whitespace text before the opening fence or after the
\* closing fence of the first fenced block, the fence-removal step of
\* cleanGeneratedCode leaves the text unchanged, so that the cleaned text is the
\* step's input, trimmed and newline-terminated.
C25_OutsideTextKept ==
    (pStage = "clean" /\ TextOutsideFirstBlock(FenceStepInput, CleanTags(pSide)))
        => /\ removeMarkdownCodeBlocks(FenceStepInput, CleanTags(pSide)) = FenceStepInput
           /\ pClean = EnsureTrailingNewline(Trim(FenceStepInput))

HasProjectPath(s) == Session(s).projectPath # <<>>

\* C26: of two builds with the same project name run concurrently in one
\* workspace, at most one obtains a project root path and writes generated
\* files; the other fails project creation and ends in error.
C26_OneBuildPerProjectRoot ==
    \A s, t \in Started :
        (s # t /\ Root(s) = Root(t))
            => /\ ~(HasProjectPath(s) /\ HasProjectPath(t))
               /\ ~(written[s] # <<>> /\ written[t] # <<>>)
               /\ (HasProjectPath(s) /\ pc[t] \notin {"start", "dfx"})
                    => Session(t).error = <<FailedToCreateProject>>

\* The build of s is over: executeBuildPipeline or createFullstackProject has
\* returned or thrown.
Finished(s) == pc[s] \in {"thrown", "finished", "returned"}

TerminalStatus(s) == Finished(s) /\ Session(s).status \in {"completed", "error"}

\* C27: every build session created by buildDApp eventually ends with status
\* completed or error, provided every external call eventually returns or
\* fails; none stays forever in pending, creating-project, building-backend or
\* building-frontend.
C27_EveryBuildSettles ==
    \A s \in SessionIds : (pc[s] # "idle") ~> TerminalStatus(s)

\* One build has ended completed and another in error.
C27_Witness ==
    \E s, t \in Started :
        /\ TerminalStatus(s) /\ Session(s).status = "completed"
        /\ TerminalStatus(t) /\ Session(t).status = "error"

CanonicalName(side, stack) ==
    IF side = "backend" THEN BackendMainName(stack) ELSE FrontendMainName(stack)

\* C28: for every raw text, the cleaned text holds no complete fenced block of
\* a scanned tag, the extracted map is the single sentinel entry, and the file
\* set returned has only the primary file, under the stack's canonical name and
\* holding the whole cleaned text: no interface or style file, no additional
\* files.
C28_OnlyPrimaryFile ==
    /\ pStage \in {"clean", "sections", "files"} => ~HasScannedBlock(pClean, pSide)
    /\ pStage \in {"sections", "files"} => pSections = <<File(MainKey, pClean)>>
    /\ pStage = "files"
         => pFiles = FileSet(File(CanonicalName(pSide, pStack), pClean), <<>>, <<>>)

\* A rust block followed by a candid block: the file set has lib.rs alone.
C28_Witness ==
    /\ pStage = "files"
    /\ pRaw = Block(TagRust, <<SP, "x", LF>>) \o Block(TagCandid, <<SP, "x", LF>>)
    /\ pFiles = FileSet(File(LibRs, <<"x", LF>>), <<>>, <<>>)

\* C29: whenever a build has finished, the session's error message is present
\* if and only if its status is error; a completed session carries no error
\* message.
C29_ErrorIffStatusError ==
    \A s \in Started :
        Finished(s) => (Session(s).error # <<>> <=> Session(s).status = "error")

\* The raw code candidate the normalizer of the side run has produced.
NormalizedRawCode == IF pStage = "raw" THEN <<pRaw>> ELSE <<>>

\* C30: parseAIResponse and parseAIFrontendResponse follow the same field-name
\* priority: for every response object the normalizer run selects the value
\* that the other one selects too, and both fail on the same responses.
C30_SameFieldPriority ==
    (Normalized /\ pResp.kind = "object")
        => /\ NormalizedRawCode = BackendRawCode(pResp)
           /\ NormalizedRawCode = FrontendRawCode(pResp)

====
